---------------------------- MODULE Spec2Model ----------------------------
(***************************************************************************)
(* Model of dags/etl_pipeline.py: the four stage functions                 *)
(* (archive_raw_file, extract_products, transform_products,                *)
(* load_products), the files they share, and the DAG that chains them      *)
(* with one retry per task.                                                *)
(*                                                                         *)
(* The specifications:                                                     *)
(*   SpecT  the cleaning policy of transform_products as a function of     *)
(*          the raw records, over every raw table within the bounds;       *)
(*   SpecW  one transform task over every raw table within the bounds;     *)
(*   Spec   the pipeline: runs, tasks, retries, the raw file, the cleaned  *)
(*          artifact, the archive directory, the clock and the             *)
(*          filesystem, each stage one step per system call;               *)
(*   SpecL, SpecF, SpecC, Spec1, SpecA, SpecK                              *)
(*          the steps of the same pipeline under the moving clock, each    *)
(*          with the runs, the tasks and the rest of the environment       *)
(*          named at its place; SpecF is the one under the fair runner.    *)
(***************************************************************************)
EXTENDS Integers, Sequences, FiniteSets, TLC

(***************************************************************************)
(* Bounds.                                                                 *)
(***************************************************************************)
MaxRows == 2
MaxNameLen == 3

(***************************************************************************)
(* CSV text.  A file is a header line and data lines, each a sequence of   *)
(* fields; a field is the text between two commas.  A column name is kept  *)
(* as its sequence of characters so that strip/lower/replace are computed. *)
(***************************************************************************)
Tokens == {"", "0", "1", "Unknown", "x"}

NameChars == {" ", "P", "p"}

RECURSIVE SeqsUpTo(_, _)
SeqsUpTo(S, n) ==
    IF n = 0 THEN {<<>>}
    ELSE LET shorter == SeqsUpTo(S, n - 1)
         IN  shorter \cup {Append(s, x) : s \in shorter, x \in S}

\* Python's str.isspace for the characters of the model.
IsSpace(c) == c = " "

\* Header fields the raw export may carry: at least one visible character.
RawNames == {s \in SeqsUpTo(NameChars, MaxNameLen) : \E i \in 1..Len(s) : ~IsSpace(s[i])}

(***************************************************************************)
(* pandas.read_csv (etl_pipeline.py:55): header mangling, NA detection,    *)
(* per-column type inference, cell conversion.  A column is int64 when     *)
(* every cell is an integer, float64 when every present cell is a number   *)
(* (or every cell is missing), object otherwise; text cells of an object   *)
(* column are kept as they are written.                                    *)
(***************************************************************************)
\* The fields read_csv reads as a missing value (of those in the model).
IsNA(tok) == tok = ""

\* Text that parses as an integer / as a number.
IsIntTok(tok) == tok \in {"0", "1"}
IsNumTok(tok) == tok \in {"0", "1", "0.0", "1.0"}

NumVal(tok) == IF tok \in {"1", "1.0"} THEN 1 ELSE 0

NaN == [k |-> "nan", n |-> 0, s |-> ""]

InferDtype(toks) ==
    LET present == {i \in 1..Len(toks) : ~IsNA(toks[i])}
    IN  IF Len(toks) = 0 THEN "object"
        ELSE IF present = {} THEN "float64"
        ELSE IF \A i \in present : IsIntTok(toks[i])
             THEN IF present = 1..Len(toks) THEN "int64" ELSE "float64"
        ELSE IF \A i \in present : IsNumTok(toks[i]) THEN "float64"
        ELSE "object"

ParseCell(tok, dtype) ==
    IF dtype = "int64" THEN [k |-> "int", n |-> NumVal(tok), s |-> ""]
    ELSE IF IsNA(tok) THEN NaN
    ELSE IF dtype = "float64" THEN [k |-> "float", n |-> NumVal(tok), s |-> ""]
    ELSE [k |-> "str", n |-> 0, s |-> tok]

Count(counts, c) == IF c \in DOMAIN counts THEN counts[c] ELSE 0

Put(counts, c, v) == [x \in DOMAIN counts \cup {c} |-> IF x = c THEN v ELSE counts[x]]

Digit(n) == <<ToString(n)>>

\* The inner loop of read_csv's duplicate-header mangling: "a", "a.1", ...
RECURSIVE MangleOne(_, _)
MangleOne(counts, col) ==
    LET cur == Count(counts, col)
    IN  IF cur > 0
        THEN MangleOne(Put(counts, col, cur + 1), col \o <<".">> \o Digit(cur))
        ELSE [counts |-> Put(counts, col, 1), col |-> col]

RECURSIVE MangleFrom(_, _, _, _)
MangleFrom(names, i, out, counts) ==
    IF i > Len(names) THEN out
    ELSE LET m == MangleOne(counts, names[i])
         IN  MangleFrom(names, i + 1, Append(out, m.col), m.counts)

MangleDupeCols(names) == MangleFrom(names, 1, <<>>, <<>>)

ColumnOf(rows, j) == [i \in 1..Len(rows) |-> rows[i][j]]

ReadCsv(file) ==
    LET ncols  == Len(file.header)
        dtypes == [j \in 1..ncols |-> InferDtype(ColumnOf(file.rows, j))]
    IN  [columns |-> MangleDupeCols(file.header),
         dtypes  |-> dtypes,
         rows    |-> [i \in 1..Len(file.rows) |->
                        [j \in 1..ncols |-> ParseCell(file.rows[i][j], dtypes[j])]]]

(***************************************************************************)
(* The cleaning policy (etl_pipeline.py:58-70).                            *)
(***************************************************************************)
Contains(seq, x) == \E i \in 1..Len(seq) : seq[i] = x

\* DataFrame.drop_duplicates(): keep the first of each group of equal rows
\* (missing cells compare equal to each other).
RECURSIVE DropFrom(_, _, _)
DropFrom(rows, i, out) ==
    IF i > Len(rows) THEN out
    ELSE DropFrom(rows, i + 1, IF Contains(out, rows[i]) THEN out ELSE Append(out, rows[i]))

\* drop_duplicates(keep=False): every row that has an equal is dropped.
DropDuplicatesKeepNone(df) ==
    [df EXCEPT !.rows = SelectSeq(df.rows,
        LAMBDA row : Cardinality({i \in 1..Len(df.rows) : df.rows[i] = row}) = 1)]

DropDuplicates(df) == [df EXCEPT !.rows = DropFrom(df.rows, 1, <<>>)]

IsNumeric(dtype) == dtype \in {"int64", "float64"}
IsObject(dtype) == dtype = "object"

FillCells(df, cols, v) ==
    [df EXCEPT !.rows = [i \in 1..Len(df.rows) |->
        [j \in 1..Len(df.columns) |->
            IF j \in cols /\ df.rows[i][j] = NaN THEN v ELSE df.rows[i][j]]]]

\* df[numeric_cols] = df[numeric_cols].fillna(0)
FillNumeric(df) ==
    FillCells(df, {j \in 1..Len(df.columns) : IsNumeric(df.dtypes[j])},
              [k |-> "float", n |-> 0, s |-> ""])

\* The fill reaching no column, as with select_dtypes(include='string').
FillStringNowhere(df) ==
    FillCells(df, {}, [k |-> "str", n |-> 0, s |-> "Unknown"])

\* df[string_cols] = df[string_cols].fillna('Unknown')
FillString(df) ==
    FillCells(df, {j \in 1..Len(df.columns) : IsObject(df.dtypes[j])},
              [k |-> "str", n |-> 0, s |-> "Unknown"])

\* str.strip(): drop leading and trailing whitespace.
RECURSIVE LStrip(_)
LStrip(s) == IF Len(s) > 0 /\ IsSpace(Head(s)) THEN LStrip(Tail(s)) ELSE s

RECURSIVE RStrip(_)
RStrip(s) ==
    IF Len(s) > 0 /\ IsSpace(s[Len(s)]) THEN RStrip(SubSeq(s, 1, Len(s) - 1)) ELSE s

Strip(s) == RStrip(LStrip(s))

LowerChar(c) == IF c = "P" THEN "p" ELSE c

Lower(s) == [i \in 1..Len(s) |-> LowerChar(s[i])]

Replace(s, old, new) == [i \in 1..Len(s) |-> IF s[i] = old THEN new ELSE s[i]]

\* The normalization without its lower().
NormalizeNameCased(col) == Replace(Strip(col), " ", "_")

\* col.strip().lower().replace(' ', '_')
NormalizeName(col) == Replace(Lower(Strip(col)), " ", "_")

StandardizeColumns(df) ==
    [df EXCEPT !.columns = [j \in 1..Len(df.columns) |-> NormalizeName(df.columns[j])]]

\* The two fills ahead of the removal of duplicates.
CleanFrameFillsFirst(df) == StandardizeColumns(DropDuplicates(FillString(FillNumeric(df))))

\* Lines 58-70: drop_duplicates, the two fills, the column names.
CleanFrame(df) == StandardizeColumns(FillString(FillNumeric(DropDuplicates(df))))

(***************************************************************************)
(* DataFrame.to_csv(index=False) (etl_pipeline.py:76).                     *)
(***************************************************************************)
FormatCell(c) ==
    CASE c.k = "nan"   -> ""
      [] c.k = "int"   -> ToString(c.n)
      [] c.k = "float" -> ToString(c.n) \o ".0"
      [] OTHER         -> c.s

ToCsv(df) ==
    [exists |-> TRUE,
     header |-> df.columns,
     rows   |-> [i \in 1..Len(df.rows) |->
                    [j \in 1..Len(df.columns) |-> FormatCell(df.rows[i][j])]]]

\* What transform_products writes for a raw file it can read.
TransformFile(file) == ToCsv(CleanFrame(ReadCsv(file)))

\* No file at the path; the raw file is kept as the table its text holds.
Absent == [exists |-> FALSE, header |-> <<>>, rows |-> <<>>]

(***************************************************************************)
(* Files as written.  What a stage writes is text, a sequence of           *)
(* characters, and a write puts its characters over those that are there,  *)
(* from the first one on: the snapshots of the archive and the cleaned     *)
(* artifact of the pipeline are kept as their text.                        *)
(***************************************************************************)
\* The characters of a field.
Chars(tok) ==
    CASE tok = ""        -> <<>>
      [] tok = "0.0"     -> <<"0", ".", "0">>
      [] tok = "1.0"     -> <<"1", ".", "0">>
      [] tok = "Unknown" -> <<"U", "n", "k", "n", "o", "w", "n">>
      [] OTHER           -> <<tok>>

\* Fields with commas between them.
RECURSIVE Joined(_)
Joined(fields) ==
    IF Len(fields) = 0 THEN <<>>
    ELSE IF Len(fields) = 1 THEN fields[1]
    ELSE fields[1] \o <<",">> \o Joined(Tail(fields))

\* One line of CSV text.
Line(fields) == Joined(fields) \o <<"\n">>

RECURSIVE LinesOf(_)
LinesOf(rows) ==
    IF Len(rows) = 0 THEN <<>>
    ELSE Line([j \in 1..Len(rows[1]) |-> Chars(rows[1][j])]) \o LinesOf(Tail(rows))

\* The text of a table: the header line and one line per record, as
\* df.to_csv(path, index=False) writes it and as the raw export holds it.
Text(file) == Line(file.header) \o LinesOf(file.rows)

\* No file at a path that stages write to.
NoFile == [exists |-> FALSE, bytes |-> <<>>]

\* A file of zero bytes: what an open for writing leaves before the write.
Empty == [exists |-> TRUE, bytes |-> <<>>]

\* The file that holds the text of a table.
Stored(file) == [exists |-> TRUE, bytes |-> Text(file)]

\* What a write that fails partway has put down: a part of the text from
\* its start, which can be nothing.
Prefixes(text) == {SubSeq(text, 1, k) : k \in 0..(Len(text) - 1)}

\* The text begins with the text start.
StartsWith(text, start) ==
    Len(start) <= Len(text) /\ SubSeq(text, 1, Len(start)) = start

(***************************************************************************)
(* pd.read_csv on the cleaned artifact (etl_pipeline.py:89): lines that    *)
(* are empty are skipped, a text without a line to take the columns from   *)
(* raises EmptyDataError, and a line that holds more fields than the       *)
(* header line and the first record raises ParserError.                    *)
(***************************************************************************)
\* The places of the newline characters of a text.
Breaks(text) == {i \in 1..Len(text) : text[i] = "\n"}

\* The lines of a text, each without its newline; the last one may lack it.
TextLines(text) ==
    LET ends == Breaks(text) \cup (IF Len(text) > 0 /\ text[Len(text)] # "\n"
                                   THEN {Len(text) + 1} ELSE {})
        From(e) == IF \E b \in ends : b < e
                   THEN 1 + CHOOSE b \in ends : b < e /\ \A c \in ends : c < e => c <= b
                   ELSE 1
    IN  {<<From(e), e - 1>> : e \in ends}

\* The number of fields of the line that runs from character a to b.
FieldsIn(text, a, b) == 1 + Cardinality({i \in a..b : text[i] = ","})

\* The number of records pd.read_csv finds in a text it can read: its lines
\* that are not empty, less the one the columns are taken from.
RecordsIn(text) == Cardinality({l \in TextLines(text) : l[1] <= l[2]}) - 1

\* How pd.read_csv ends on a text: "ok" or the exception it raises.
ReadsAs(text) ==
    LET lines  == {l \in TextLines(text) : l[1] <= l[2]}
        Before(l) == Cardinality({m \in lines : m[1] < l[1]})
        width  == {FieldsIn(text, l[1], l[2]) : l \in {m \in lines : Before(m) <= 1}}
    IN  IF lines = {} THEN "EmptyDataError"
        ELSE IF \E l \in lines : \A w \in width : FieldsIn(text, l[1], l[2]) > w
        THEN "ParserError"
        ELSE "ok"


(***************************************************************************)
(* The pipeline.                                                           *)
(***************************************************************************)
Runs == {1, 2}

\* The clock is read in parts of a second: datetime.now() carries the
\* microseconds, the name of a snapshot stops at the second.
TicksPerSecond == 2

\* The last reading of the clock, in ticks.
MaxClock == 2

\* A name that stops at the day: strftime('%Y%m%d').
SnapshotNameOfDay(t) == "products_" \o ".csv"

\* Line 104: products_<YYYYMMDD_HHMMSS>.csv, the reading of the local clock
\* cut to the second.
SnapshotName(t) == "products_" \o ToString(t \div TicksPerSecond) \o ".csv"

\* The names a snapshot can take while the clock runs.
SnapshotNames == {SnapshotName(t) : t \in 0..MaxClock}

\* default_args['retries']
Retries == 1

Tasks == {"archive_raw_file", "extract_products", "transform_products", "load_products"}

\* The chain with its link from task_extract to task_transform left out.
UpstreamUnchained(t) ==
    CASE t = "load_products" -> {"transform_products"}
      [] t = "transform_products" -> {}
      [] t = "extract_products" -> {"archive_raw_file"}
      [] OTHER -> {}

\* task_archive_raw >> task_extract >> task_transform >> task_load
Upstream(t) ==
    CASE t = "load_products" -> {"transform_products"}
      [] t = "transform_products" -> {"extract_products"}
      [] t = "extract_products" -> {"archive_raw_file"}
      [] OTHER -> {}

\* Raw exports the external producer may drop at RAW_FILE_PATH: a table with
\* a missing number next to a zero, which cleans to two records, and a
\* table with one record twice, which cleans to one.
RawA == [exists |-> TRUE, header |-> << <<"P">>, <<"p", " ", "P">> >>,
         rows |-> << <<"0", "x">>, <<"", "x">> >>]
RawB == [exists |-> TRUE, header |-> << <<" ", "P">>, <<"p">> >>,
         rows |-> << <<"", "0">>, <<"", "0">> >>]

RawFiles == {RawA, RawB}

\* pd.DataFrame()
EmptyFrame == [columns |-> <<>>, dtypes |-> <<>>, rows |-> <<>>]

VARIABLES
    rawFile,        \* content of RAW_FILE_PATH, or Absent
    cleanedFile,    \* the file at TRANSFORMED_FILE_PATH: its text, or NoFile
                    \* (SpecT: the table transform_products writes)
    recleanedFile,  \* SpecT only: the cleaning policy applied to cleanedFile
    fsWritable,     \* whether the filesystem accepts writes at present
    archiveDir,     \* whether ARCHIVE_DIR exists
    archive,        \* name of a snapshot -> the file of that name in ARCHIVE_DIR
    now,            \* the reading of the local clock, in ticks
    runState,       \* run -> "none" | "running" | "success" | "failed"
    ts,             \* run -> task -> the runner's state of the task instance
    tries,          \* run -> task -> attempts started
    pc,             \* run -> task -> position inside the stage function
    outcome,        \* run -> task -> how the latest attempt ended
    df,             \* run -> the frame transform_products holds in memory
    extracted,      \* run -> number of records in the frame extract_products returned
    stamp,          \* run -> the reading of the clock its archive took, or -1
    path,           \* run -> the archive_path of its archive, or ""
    src,            \* run -> the raw file its archive holds open as the source
    cleanedBy,      \* the run whose transform wrote the cleaned artifact, or 0
    cleaned,        \* run -> cleaned_count, the records its transform logged, or -1
    loaded          \* run -> the records its load read and logged as ready, or -1

vars == <<rawFile, cleanedFile, recleanedFile, fsWritable, archiveDir, archive, now,
          runState, ts, tries, pc, outcome, df, extracted, stamp, path, src, cleanedBy, cleaned, loaded>>

fsVars == <<rawFile, cleanedFile, recleanedFile, fsWritable, archiveDir, archive, now>>

PipelineInit ==
    /\ fsWritable = TRUE
    /\ archiveDir = FALSE
    /\ archive = [n \in SnapshotNames |-> NoFile]
    /\ now = 0
    /\ runState = [r \in Runs |-> "none"]
    /\ ts = [r \in Runs |-> [t \in Tasks |-> "none"]]
    /\ tries = [r \in Runs |-> [t \in Tasks |-> 0]]
    /\ pc = [r \in Runs |-> [t \in Tasks |-> "idle"]]
    /\ outcome = [r \in Runs |-> [t \in Tasks |-> "none"]]
    /\ df = [r \in Runs |-> EmptyFrame]
    /\ extracted = [r \in Runs |-> 0]
    /\ stamp = [r \in Runs |-> -1]
    /\ path = [r \in Runs |-> ""]
    /\ src = [r \in Runs |-> Absent]
    /\ cleanedBy = 0
    /\ cleaned = [r \in Runs |-> -1]
    /\ loaded = [r \in Runs |-> -1]

Init ==
    /\ rawFile \in RawFiles \cup {Absent}
    /\ cleanedFile = NoFile
    /\ recleanedFile = Absent
    /\ PipelineInit

(***************************************************************************)
(* The runner: one task instance per task and run, started once every      *)
(* upstream task instance has succeeded, re-attempted after a failure      *)
(* while the retry budget lasts (etl_pipeline.py:110-147).                 *)
(***************************************************************************)
\* A runner that never starts a task instance a second time.
CanStartOnce(r, t) ==
    /\ runState[r] = "running"
    /\ ts[r][t] = "none"
    /\ \A u \in Upstream(t) : ts[r][u] = "success"

\* Lines 110-147: a task instance is due when it has not run or is up for
\* retry, and every upstream task instance has succeeded.
CanStart(r, t) ==
    /\ runState[r] = "running"
    /\ ts[r][t] \in {"none", "up_for_retry"}
    /\ \A u \in Upstream(t) : ts[r][u] = "success"

\* A budget that counts one attempt too many.
AfterFailureOneMore(n) == IF n <= Retries + 1 THEN "up_for_retry" ELSE "failed"

\* The state of a task instance whose n-th attempt raised.
AfterFailure(n) == IF n <= Retries THEN "up_for_retry" ELSE "failed"

\* The attempt of task t in run r that is starting goes on to position p.
Continues(r, t, p) ==
    /\ ts' = [ts EXCEPT ![r][t] = "running"]
    /\ tries' = [tries EXCEPT ![r][t] = @ + 1]
    /\ pc' = [pc EXCEPT ![r][t] = p]
    /\ outcome' = [outcome EXCEPT ![r][t] = "none"]

\* The attempt of task t in run r that is starting returns at once.
ReturnsAtOnce(r, t, how) ==
    /\ ts' = [ts EXCEPT ![r][t] = "success"]
    /\ tries' = [tries EXCEPT ![r][t] = @ + 1]
    /\ pc' = pc
    /\ outcome' = [outcome EXCEPT ![r][t] = how]

\* The attempt of task t in run r that is starting raises exc at once.
RaisesAtOnce(r, t, exc) ==
    /\ ts' = [ts EXCEPT ![r][t] = AfterFailure(tries[r][t] + 1)]
    /\ tries' = [tries EXCEPT ![r][t] = @ + 1]
    /\ pc' = pc
    /\ outcome' = [outcome EXCEPT ![r][t] = exc]

\* The running attempt moves on to position p.
Goes(r, t, p) ==
    /\ pc' = [pc EXCEPT ![r][t] = p]
    /\ UNCHANGED <<ts, tries, outcome>>

\* The running attempt returns normally.
Returns(r, t, how) ==
    /\ ts' = [ts EXCEPT ![r][t] = "success"]
    /\ pc' = [pc EXCEPT ![r][t] = "idle"]
    /\ outcome' = [outcome EXCEPT ![r][t] = how]
    /\ tries' = tries

\* The running attempt raises exc.
Raises(r, t, exc) ==
    /\ ts' = [ts EXCEPT ![r][t] = AfterFailure(tries[r][t])]
    /\ pc' = [pc EXCEPT ![r][t] = "idle"]
    /\ outcome' = [outcome EXCEPT ![r][t] = exc]
    /\ tries' = tries

Trigger(r) ==
    /\ runState[r] = "none"
    /\ \A q \in Runs : q < r => runState[q] # "none"
    /\ runState' = [runState EXCEPT ![r] = "running"]
    /\ UNCHANGED <<fsVars, ts, tries, pc, outcome, df, extracted, stamp, path, src, cleanedBy, cleaned, loaded>>

\* A task instance below a failed one is never run.
SkipDownstream(r, t) ==
    /\ runState[r] = "running"
    /\ ts[r][t] = "none"
    /\ \E u \in Upstream(t) : ts[r][u] \in {"failed", "upstream_failed"}
    /\ ts' = [ts EXCEPT ![r][t] = "upstream_failed"]
    /\ UNCHANGED <<fsVars, runState, tries, pc, outcome, df, extracted, stamp, path, src, cleanedBy, cleaned, loaded>>

\* A run that ends as soon as one task instance has failed.
FinishedAtFirstFailure(r) ==
    \/ \A t \in Tasks : ts[r][t] \in {"success", "failed", "upstream_failed"}
    \/ \E t \in Tasks : ts[r][t] = "failed"

\* Lines 117-147: a run ends when none of its task instances is unfinished.
Finished(r) == \A t \in Tasks : ts[r][t] \in {"success", "failed", "upstream_failed"}

FinishRun(r) ==
    /\ runState[r] = "running"
    /\ Finished(r)
    /\ runState' = [runState EXCEPT ![r] =
            IF \A t \in Tasks : ts[r][t] = "success" THEN "success" ELSE "failed"]
    /\ UNCHANGED <<fsVars, ts, tries, pc, outcome, df, extracted, stamp, path, src, cleanedBy, cleaned, loaded>>

(***************************************************************************)
(* archive_raw_file (etl_pipeline.py:93-106).                              *)
(***************************************************************************)
\* Lines 97-99: no raw file, a warning and a normal return.
ArchiveNoRaw(r) == ReturnsAtOnce(r, "archive_raw_file", "missing")

\* Line 97: the os.path.exists test of the raw file.
ArchiveStart(r) ==
    /\ CanStart(r, "archive_raw_file")
    /\ IF ~rawFile.exists
       THEN ArchiveNoRaw(r)
       ELSE Continues(r, "archive_raw_file", "dircheck")
    /\ UNCHANGED <<fsVars, runState, df, extracted, stamp, path, src, cleanedBy, cleaned, loaded>>

\* Line 101: the os.path.exists test of the archive directory, a call of
\* its own after the test of line 97.
ArchiveDirCheck(r) ==
    /\ pc[r]["archive_raw_file"] = "dircheck"
    /\ Goes(r, "archive_raw_file", IF archiveDir THEN "name" ELSE "makedirs")
    /\ UNCHANGED <<fsVars, runState, df, extracted, stamp, path, src, cleanedBy, cleaned, loaded>>

\* Line 102: os.makedirs raises when the directory exists by now, or when
\* the filesystem refuses the write.
ArchiveMakedirs(r) ==
    /\ pc[r]["archive_raw_file"] = "makedirs"
    /\ IF archiveDir
       THEN Raises(r, "archive_raw_file", "FileExistsError") /\ archiveDir' = archiveDir
       ELSE IF ~fsWritable
       THEN Raises(r, "archive_raw_file", "OSError") /\ archiveDir' = archiveDir
       ELSE Goes(r, "archive_raw_file", "name") /\ archiveDir' = TRUE
    /\ UNCHANGED <<rawFile, cleanedFile, recleanedFile, fsWritable, archive, now,
                   runState, df, extracted, stamp, path, src, cleanedBy, cleaned, loaded>>

\* A write that leaves an artifact that is already there alone.
WriteKeepsExisting(old, text) ==
    IF old.exists THEN old ELSE [exists |-> TRUE, bytes |-> text]

\* A write of text from the first character of the file on: what the file
\* held beyond the text stays.
WriteOver(old, text) ==
    [exists |-> TRUE, bytes |-> text \o SubSeq(old.bytes, Len(text) + 1, Len(old.bytes))]

\* Line 104: datetime.now() is read and formatted into the archive_path.
ArchiveName(r) ==
    /\ pc[r]["archive_raw_file"] = "name"
    /\ Goes(r, "archive_raw_file", "opensrc")
    /\ stamp' = [stamp EXCEPT ![r] = now]
    /\ path' = [path EXCEPT ![r] = SnapshotName(now)]
    /\ UNCHANGED <<fsVars, runState, df, extracted, src, cleanedBy, cleaned, loaded>>

\* The attempt of the archive of run r ends raised: its archive_path is
\* not logged and the raw file it held open is closed.
Dropped(r) ==
    /\ stamp' = [stamp EXCEPT ![r] = -1]
    /\ path' = [path EXCEPT ![r] = ""]
    /\ src' = [src EXCEPT ![r] = Absent]

\* The copy wrapped in a try that logs and goes on.
CopyFailureSwallowed(r) == Returns(r, "archive_raw_file", "ok")

\* Line 105: a call inside shutil.copy is refused (no space, no permission)
\* and nothing catches the exception.
CopyFailure(r) == Raises(r, "archive_raw_file", "OSError")

\* Line 105, open(src, 'rb') of shutil.copyfile: it raises when the raw
\* file is gone by now; the file that is opened is the one read later on.
ArchiveOpenSrc(r) ==
    /\ pc[r]["archive_raw_file"] = "opensrc"
    /\ IF ~rawFile.exists
       THEN Raises(r, "archive_raw_file", "FileNotFoundError") /\ Dropped(r)
       ELSE /\ Goes(r, "archive_raw_file", "opendst")
            /\ src' = [src EXCEPT ![r] = rawFile]
            /\ UNCHANGED <<stamp, path>>
    /\ UNCHANGED <<fsVars, runState, df, extracted, cleanedBy, cleaned, loaded>>

\* Line 105, open(dst, 'wb') of shutil.copyfile: it creates the snapshot
\* or empties the one of that name, or is refused.
ArchiveOpenDst(r) ==
    /\ pc[r]["archive_raw_file"] = "opendst"
    /\ \/ /\ Goes(r, "archive_raw_file", "write")
          /\ archive' = [archive EXCEPT ![path[r]] = Empty]
          /\ UNCHANGED <<stamp, path, src>>
       \/ /\ ~fsWritable
          /\ CopyFailure(r)
          /\ Dropped(r)
          /\ archive' = archive
    /\ UNCHANGED <<rawFile, cleanedFile, recleanedFile, fsWritable, archiveDir, now,
                   runState, df, extracted, cleanedBy, cleaned, loaded>>

\* Line 105, the write of shutil.copyfile: the text of the raw file that
\* was opened goes over what the snapshot holds by now, or the write fails
\* partway and leaves a part of the text there; the two files are closed.
ArchiveWrite(r) ==
    /\ pc[r]["archive_raw_file"] = "write"
    /\ IF fsWritable
       THEN /\ Goes(r, "archive_raw_file", "stat")
            /\ archive' = [archive EXCEPT ![path[r]] = WriteOver(@, Text(src[r]))]
            /\ src' = [src EXCEPT ![r] = Absent]
            /\ UNCHANGED <<stamp, path>>
       ELSE /\ CopyFailure(r)
            /\ \E part \in Prefixes(Text(src[r])) :
                   archive' = [archive EXCEPT ![path[r]] = WriteOver(@, part)]
            /\ Dropped(r)
    /\ UNCHANGED <<rawFile, cleanedFile, recleanedFile, fsWritable, archiveDir, now,
                   runState, df, extracted, cleanedBy, cleaned, loaded>>

\* Line 105, os.stat(src) of shutil.copymode: the mode is taken from the
\* path of the raw file, which raises when the file is gone by now, with
\* the snapshot written.
ArchiveStat(r) ==
    /\ pc[r]["archive_raw_file"] = "stat"
    /\ IF ~rawFile.exists
       THEN Raises(r, "archive_raw_file", "FileNotFoundError") /\ Dropped(r)
       ELSE Goes(r, "archive_raw_file", "chmod") /\ UNCHANGED <<stamp, path, src>>
    /\ UNCHANGED <<fsVars, runState, df, extracted, cleanedBy, cleaned, loaded>>

\* The raw file moved into the archive, as shutil.move would.
ArchiveMoves(r) ==
    /\ pc[r]["archive_raw_file"] = "chmod"
    /\ IF fsWritable
       THEN /\ Returns(r, "archive_raw_file", "ok")
            /\ UNCHANGED <<stamp, path, src>>
            /\ rawFile' = Absent
       ELSE /\ CopyFailure(r)
            /\ Dropped(r)
            /\ rawFile' = rawFile
    /\ UNCHANGED <<cleanedFile, recleanedFile, fsWritable, archiveDir, archive, now,
                   runState, df, extracted, cleanedBy, cleaned, loaded>>

\* Lines 105-106, os.chmod(dst) of shutil.copymode, which can be refused
\* with the whole text written, and the log line of the archive_path.
ArchiveChmod(r) ==
    /\ pc[r]["archive_raw_file"] = "chmod"
    /\ IF fsWritable
       THEN Returns(r, "archive_raw_file", "ok") /\ UNCHANGED <<stamp, path, src>>
       ELSE CopyFailure(r) /\ Dropped(r)
    /\ UNCHANGED <<fsVars, runState, df, extracted, cleanedBy, cleaned, loaded>>

(***************************************************************************)
(* extract_products (etl_pipeline.py:27-38, 131-134).  The os.path.exists  *)
(* test and the read that follows it are two steps.  The function returns  *)
(* a frame, and the operator, built with its defaults, hands what its      *)
(* callable returns to the runner to store as the XCom of the task         *)
(* instance: the attempt succeeds once the frame is stored.  Whether the   *)
(* runner can store a frame depends on how it is installed and set up      *)
(* (the pickling of XComs, the version of its serializers and the          *)
(* libraries they need), none of which the DAG file decides: the push      *)
(* stores the frame or raises.                                             *)
(***************************************************************************)
\* The function returns its frame of n records to the runner.
Yields(r, how, n) ==
    /\ pc' = [pc EXCEPT ![r]["extract_products"] = "push"]
    /\ outcome' = [outcome EXCEPT ![r]["extract_products"] = how]
    /\ extracted' = [extracted EXCEPT ![r] = n]

\* Lines 32-34: no raw file, an error line and an empty frame returned.
ExtractNoRaw(r) ==
    /\ ts' = [ts EXCEPT ![r]["extract_products"] = "running"]
    /\ tries' = [tries EXCEPT ![r]["extract_products"] = @ + 1]
    /\ Yields(r, "missing", Len(EmptyFrame.rows))

\* Line 32: the os.path.exists test of the raw file.
ExtractStart(r) ==
    /\ CanStart(r, "extract_products")
    /\ IF ~rawFile.exists
       THEN ExtractNoRaw(r)
       ELSE Continues(r, "extract_products", "read") /\ extracted' = extracted
    /\ UNCHANGED <<fsVars, runState, df, stamp, path, src, cleanedBy, cleaned, loaded>>

\* Lines 36-38: pd.read_csv, which raises when the raw file is gone by now,
\* the log line of the record count and the return of the frame.
ExtractRead(r) ==
    /\ pc[r]["extract_products"] = "read"
    /\ IF ~rawFile.exists
       THEN Raises(r, "extract_products", "FileNotFoundError") /\ extracted' = extracted
       ELSE /\ Yields(r, "ok", Len(ReadCsv(rawFile).rows))
            /\ UNCHANGED <<ts, tries>>
    /\ UNCHANGED <<fsVars, runState, df, stamp, path, src, cleanedBy, cleaned, loaded>>

\* Lines 131-134: the returned frame is pushed as the XCom of the task
\* instance; the attempt succeeds when it is stored and raises when the
\* runner cannot serialize a frame.
ExtractPush(r) ==
    /\ pc[r]["extract_products"] = "push"
    /\ \/ /\ ts' = [ts EXCEPT ![r]["extract_products"] = "success"]
          /\ pc' = [pc EXCEPT ![r]["extract_products"] = "idle"]
          /\ UNCHANGED <<tries, outcome>>
       \/ Raises(r, "extract_products", "TypeError")
    /\ UNCHANGED <<fsVars, runState, df, extracted, stamp, path, src, cleanedBy, cleaned, loaded>>

(***************************************************************************)
(* transform_products (etl_pipeline.py:41-77).                             *)
(***************************************************************************)
\* A missing raw file answered by writing an empty frame.
TransformNoRawWritesEmpty(r) ==
    /\ ReturnsAtOnce(r, "transform_products", "missing")
    /\ df' = df
    /\ cleanedFile' = Stored(ToCsv(EmptyFrame))

\* Lines 51-53: no raw file, an error line and a return before any write.
TransformNoRaw(r) ==
    /\ ReturnsAtOnce(r, "transform_products", "missing")
    /\ df' = df
    /\ cleanedFile' = cleanedFile

\* Line 51: the os.path.exists test of the raw file.
TransformStart(r) ==
    /\ CanStart(r, "transform_products")
    /\ IF ~rawFile.exists
       THEN TransformNoRaw(r)
       ELSE /\ Continues(r, "transform_products", "read")
            /\ df' = df
            /\ cleanedFile' = cleanedFile
    /\ UNCHANGED <<rawFile, recleanedFile, fsWritable, archiveDir, archive, now,
                   runState, extracted, stamp, path, src, cleanedBy, cleaned, loaded>>

\* Lines 55-73: pd.read_csv, which raises when the raw file is gone by now,
\* the cleaning of the frame in memory and the log line of cleaned_count.
TransformRead(r) ==
    /\ pc[r]["transform_products"] = "read"
    /\ IF ~rawFile.exists
       THEN /\ Raises(r, "transform_products", "FileNotFoundError")
            /\ UNCHANGED <<df, cleaned>>
       ELSE /\ Goes(r, "transform_products", "open")
            /\ df' = [df EXCEPT ![r] = CleanFrame(ReadCsv(rawFile))]
            /\ cleaned' = [cleaned EXCEPT ![r] = Len(CleanFrame(ReadCsv(rawFile)).rows)]
    /\ UNCHANGED <<fsVars, runState, extracted, stamp, path, src, cleanedBy, loaded>>

\* Line 76, first half: to_csv opens the path for writing, which creates
\* or truncates the artifact, or the open is refused.
TransformOpen(r) ==
    /\ pc[r]["transform_products"] = "open"
    /\ \/ /\ Goes(r, "transform_products", "write")
          /\ cleanedFile' = Empty
          /\ cleanedBy' = r
          /\ df' = df
       \/ /\ ~fsWritable
          /\ Raises(r, "transform_products", "OSError")
          /\ cleanedFile' = cleanedFile
          /\ cleanedBy' = cleanedBy
          /\ df' = [df EXCEPT ![r] = EmptyFrame]
    /\ UNCHANGED <<rawFile, recleanedFile, fsWritable, archiveDir, archive, now,
                   runState, extracted, stamp, path, src, cleaned, loaded>>

\* Line 76, second half: the text of the frame is written from the start
\* of the artifact over what the open, or another run meanwhile, left
\* there, and the file is closed; or the write fails partway and leaves a
\* part of the text.
TransformWrite(r) ==
    /\ pc[r]["transform_products"] = "write"
    /\ \/ /\ fsWritable
          /\ Returns(r, "transform_products", "ok")
          /\ cleanedFile' = WriteOver(cleanedFile, Text(ToCsv(df[r])))
          /\ cleanedBy' = r
       \/ /\ ~fsWritable
          /\ Raises(r, "transform_products", "OSError")
          /\ \E part \in Prefixes(Text(ToCsv(df[r]))) :
                 /\ cleanedFile' = WriteOver(cleanedFile, part)
                 /\ cleanedBy' = IF Len(part) = 0 THEN cleanedBy ELSE r
    /\ df' = [df EXCEPT ![r] = EmptyFrame]
    /\ UNCHANGED <<rawFile, recleanedFile, fsWritable, archiveDir, archive, now,
                   runState, extracted, stamp, path, src, cleaned, loaded>>

(***************************************************************************)
(* load_products (etl_pipeline.py:80-90).  No step removes the artifact,   *)
(* so the read finds the file the os.path.exists test found; what the      *)
(* read finds in it is what the file holds when the step is taken.         *)
(***************************************************************************)
\* Lines 85-87: no cleaned artifact, an error line and a normal return.
LoadNoCleaned(r) == ReturnsAtOnce(r, "load_products", "missing")

\* Line 89: pd.read_csv raises on an artifact it cannot read as a table:
\* EmptyDataError on a file of zero bytes, ParserError on a line too long.
LoadUnreadable(r) == RaisesAtOnce(r, "load_products", ReadsAs(cleanedFile.bytes))

\* Lines 85-90: the test of the artifact, the read and the log line of the
\* records that are ready.
Load(r) ==
    /\ CanStart(r, "load_products")
    /\ IF ~cleanedFile.exists
       THEN LoadNoCleaned(r) /\ loaded' = loaded
       ELSE IF ReadsAs(cleanedFile.bytes) # "ok"
       THEN LoadUnreadable(r) /\ loaded' = loaded
       ELSE /\ ReturnsAtOnce(r, "load_products", "ok")
            /\ loaded' = [loaded EXCEPT ![r] = RecordsIn(cleanedFile.bytes)]
    /\ UNCHANGED <<fsVars, runState, df, extracted, stamp, path, src, cleanedBy, cleaned>>

(***************************************************************************)
(* The world around the stages: the producer of the raw export, the clock  *)
(* and the filesystem.                                                     *)
(***************************************************************************)
\* The filesystem stops accepting writes: no space, no permission.
DiskFails ==
    /\ fsWritable
    /\ fsWritable' = FALSE
    /\ UNCHANGED <<rawFile, cleanedFile, recleanedFile, archiveDir, archive, now,
                   runState, ts, tries, pc, outcome, df, extracted, stamp, path, src, cleanedBy, cleaned, loaded>>

DiskRecovers ==
    /\ ~fsWritable
    /\ fsWritable' = TRUE
    /\ UNCHANGED <<rawFile, cleanedFile, recleanedFile, archiveDir, archive, now,
                   runState, ts, tries, pc, outcome, df, extracted, stamp, path, src, cleanedBy, cleaned, loaded>>

ProducerWrite(f) ==
    /\ rawFile # f
    /\ rawFile' = f
    /\ UNCHANGED <<cleanedFile, recleanedFile, fsWritable, archiveDir, archive, now,
                   runState, ts, tries, pc, outcome, df, extracted, stamp, path, src, cleanedBy, cleaned, loaded>>

ProducerRemove ==
    /\ rawFile.exists
    /\ rawFile' = Absent
    /\ UNCHANGED <<cleanedFile, recleanedFile, fsWritable, archiveDir, archive, now,
                   runState, ts, tries, pc, outcome, df, extracted, stamp, path, src, cleanedBy, cleaned, loaded>>

\* now is the reading of the local clock that datetime.now() returns; the
\* clock moves on by a part of a second.
Tick ==
    /\ now < MaxClock
    /\ now' = now + 1
    /\ UNCHANGED <<rawFile, cleanedFile, recleanedFile, fsWritable, archiveDir, archive,
                   runState, ts, tries, pc, outcome, df, extracted, stamp, path, src, cleanedBy, cleaned, loaded>>

\* The local clock is set back, as at the end of daylight saving time: a
\* later instant has the reading an earlier one had.
ClockSetBack ==
    /\ now > 0
    /\ now' \in 0..(now - 1)
    /\ UNCHANGED <<rawFile, cleanedFile, recleanedFile, fsWritable, archiveDir, archive,
                   runState, ts, tries, pc, outcome, df, extracted, stamp, path, src, cleanedBy, cleaned, loaded>>

\* The steps of the archive task instance of run r.
ArchiveStep(r) ==
    \/ ArchiveStart(r)
    \/ ArchiveDirCheck(r)
    \/ ArchiveMakedirs(r)
    \/ ArchiveName(r)
    \/ ArchiveOpenSrc(r)
    \/ ArchiveOpenDst(r)
    \/ ArchiveWrite(r)
    \/ ArchiveStat(r)
    \/ ArchiveChmod(r)

\* The steps of run r: those of its task instances and of the runner on it.
RunStep(r) ==
    \/ ArchiveStep(r)
    \/ ExtractStart(r)
    \/ ExtractRead(r)
    \/ ExtractPush(r)
    \/ TransformStart(r)
    \/ TransformRead(r)
    \/ TransformOpen(r)
    \/ TransformWrite(r)
    \/ Load(r)
    \/ \E t \in Tasks : SkipDownstream(r, t)
    \/ FinishRun(r)

\* The runner and the stages of every run.
Pipeline ==
    \/ \E r \in Runs : Trigger(r)
    \/ \E r \in Runs : RunStep(r)

\* Spec: the pipeline in its whole environment.
Next ==
    \/ Pipeline
    \/ \E f \in RawFiles : ProducerWrite(f)
    \/ ProducerRemove
    \/ Tick
    \/ ClockSetBack
    \/ DiskFails
    \/ DiskRecovers

Spec == Init /\ [][Next]_vars

(***************************************************************************)
(* The whole environment gives more states than can be enumerated, so      *)
(* each property is checked under the steps of the pipeline it is about    *)
(* with the part of the environment it is about.  In every specification   *)
(* the raw file comes and goes at any time and the clock moves on.         *)
(***************************************************************************)
\* One raw file content: the content decides no branch of the runner or of
\* a stage.
InitL ==
    /\ rawFile \in {RawA, Absent}
    /\ cleanedFile = NoFile
    /\ recleanedFile = Absent
    /\ PipelineInit

\* Weak fairness of the steps that read or write text, with the enabling
\* condition written out: such a step is possible exactly when the attempt
\* is at it, or, for the load, when the task instance is due.
TransformReadFair(r) ==
    \/ []<>(pc[r]["transform_products"] # "read")
    \/ []<><<TransformRead(r)>>_vars

TransformWriteFair(r) ==
    \/ []<>(pc[r]["transform_products"] # "write")
    \/ []<><<TransformWrite(r)>>_vars

ArchiveWriteFair(r) ==
    \/ []<>(pc[r]["archive_raw_file"] # "write")
    \/ []<><<ArchiveWrite(r)>>_vars

LoadFair(r) ==
    \/ []<>(~CanStart(r, "load_products"))
    \/ []<><<Load(r)>>_vars

\* The runner schedules every due task instance of run r and every attempt
\* that has started finishes; the environment is under no obligation.
Fairness(r) ==
        /\ WF_vars(ArchiveStart(r))
        /\ WF_vars(ArchiveDirCheck(r))
        /\ WF_vars(ArchiveMakedirs(r))
        /\ WF_vars(ArchiveName(r))
        /\ WF_vars(ArchiveOpenSrc(r))
        /\ WF_vars(ArchiveOpenDst(r))
        /\ ArchiveWriteFair(r)
        /\ WF_vars(ArchiveStat(r))
        /\ WF_vars(ArchiveChmod(r))
        /\ WF_vars(ExtractStart(r))
        /\ WF_vars(ExtractRead(r))
        /\ WF_vars(ExtractPush(r))
        /\ WF_vars(TransformStart(r))
        /\ TransformReadFair(r)
        /\ WF_vars(TransformOpen(r))
        /\ TransformWriteFair(r)
        /\ LoadFair(r)
        /\ WF_vars(\E t \in Tasks : SkipDownstream(r, t))
        /\ WF_vars(FinishRun(r))

\* SpecL: both runs, every stage; the raw file comes and goes and the clock
\* moves.
NextL ==
    \/ Pipeline
    \/ ProducerWrite(RawA)
    \/ ProducerRemove
    \/ Tick

SpecL == InitL /\ [][NextL]_vars

\* SpecF: one run under the fair runner; the raw file comes and goes, the
\* clock moves and the filesystem fails and recovers.  No step of a run is
\* guarded by the state of another run, so another run takes no step away
\* from this one.
NextF ==
    \/ Trigger(1)
    \/ RunStep(1)
    \/ ProducerWrite(RawA)
    \/ ProducerRemove
    \/ Tick
    \/ DiskFails
    \/ DiskRecovers

SpecF == InitL /\ [][NextF]_vars /\ Fairness(1)

\* SpecK: the archive task instances of both runs; the raw file comes and
\* goes, the clock moves and the filesystem fails and recovers.
NextK ==
    \/ \E r \in Runs : Trigger(r)
    \/ \E r \in Runs : ArchiveStep(r)
    \/ ProducerWrite(RawA)
    \/ ProducerRemove
    \/ Tick
    \/ ClockSetBack
    \/ DiskFails
    \/ DiskRecovers

SpecK == InitL /\ [][NextK]_vars

\* SpecC: the transform and load task instances of both runs, from the
\* state in which both runs have been created with no raw file there and
\* the archive and extract task instances of both have returned; the
\* producer writes the raw file with either content and removes it.
InitC ==
    /\ rawFile = Absent
    /\ cleanedFile = NoFile
    /\ recleanedFile = Absent
    /\ fsWritable = TRUE
    /\ archiveDir = FALSE
    /\ archive = [n \in SnapshotNames |-> NoFile]
    /\ now = 0
    /\ runState = [r \in Runs |-> "running"]
    /\ ts = [r \in Runs |-> [t \in Tasks |->
                IF t \in {"archive_raw_file", "extract_products"} THEN "success" ELSE "none"]]
    /\ tries = [r \in Runs |-> [t \in Tasks |->
                IF t \in {"archive_raw_file", "extract_products"} THEN 1 ELSE 0]]
    /\ pc = [r \in Runs |-> [t \in Tasks |-> "idle"]]
    /\ outcome = [r \in Runs |-> [t \in Tasks |->
                IF t \in {"archive_raw_file", "extract_products"} THEN "missing" ELSE "none"]]
    /\ df = [r \in Runs |-> EmptyFrame]
    /\ extracted = [r \in Runs |-> 0]
    /\ stamp = [r \in Runs |-> -1]
    /\ path = [r \in Runs |-> ""]
    /\ src = [r \in Runs |-> Absent]
    /\ cleanedBy = 0
    /\ cleaned = [r \in Runs |-> -1]
    /\ loaded = [r \in Runs |-> -1]

NextC ==
    \/ \E r \in Runs : TransformStart(r)
    \/ \E r \in Runs : TransformRead(r)
    \/ \E r \in Runs : TransformOpen(r)
    \/ \E r \in Runs : TransformWrite(r)
    \/ \E r \in Runs : Load(r)
    \/ \E r \in Runs : SkipDownstream(r, "load_products")
    \/ \E r \in Runs : FinishRun(r)
    \/ \E f \in RawFiles : ProducerWrite(f)
    \/ ProducerRemove
    \/ Tick

SpecC == InitC /\ [][NextC]_vars

\* SpecA: the archive task instances of both runs; the producer rewrites
\* the raw file and the filesystem fails and recovers.
NextA ==
    \/ \E r \in Runs : Trigger(r)
    \/ \E r \in Runs : ArchiveStep(r)
    \/ \E f \in RawFiles : ProducerWrite(f)
    \/ ProducerRemove
    \/ Tick
    \/ DiskFails
    \/ DiskRecovers

SpecA == Init /\ [][NextA]_vars

\* Spec1: one run; the producer rewrites the raw file and the filesystem
\* fails and recovers.
Next1 ==
    \/ Trigger(1)
    \/ RunStep(1)
    \/ \E f \in RawFiles : ProducerWrite(f)
    \/ ProducerRemove
    \/ Tick
    \/ DiskFails
    \/ DiskRecovers

Spec1 == Init /\ [][Next1]_vars

(***************************************************************************)
(* SpecT: the cleaning policy over every raw table within the bounds.      *)
(* The raw file is any table of two columns and up to MaxRows rows under   *)
(* plain column names, or any pair of header fields over a fixed row; the  *)
(* cleaned artifact is what transform_products writes for it, and the      *)
(* policy is then applied once more to the cleaned artifact.               *)
(***************************************************************************)
PlainHeader == << <<"c", "1">>, <<"c", "2">> >>

Headers == {<<a, b>> : a \in RawNames, b \in RawNames}

RawTables ==
    {[exists |-> TRUE, header |-> PlainHeader, rows |-> rs] :
        rs \in SeqsUpTo(Tokens \X Tokens, MaxRows)}
    \cup
    {[exists |-> TRUE, header |-> h, rows |-> << <<"x", "x">> >>] : h \in Headers}

InitT ==
    /\ rawFile \in RawTables
    /\ cleanedFile = Absent
    /\ recleanedFile = Absent
    /\ PipelineInit

Clean ==
    /\ ~cleanedFile.exists
    /\ cleanedFile' = TransformFile(rawFile)
    /\ UNCHANGED <<rawFile, recleanedFile, fsWritable, archiveDir, archive, now,
                   runState, ts, tries, pc, outcome, df, extracted, stamp, path, src, cleanedBy, cleaned, loaded>>

CleanAgain ==
    /\ cleanedFile.exists
    /\ ~recleanedFile.exists
    /\ recleanedFile' = TransformFile(cleanedFile)
    /\ UNCHANGED <<rawFile, cleanedFile, fsWritable, archiveDir, archive, now,
                   runState, ts, tries, pc, outcome, df, extracted, stamp, path, src, cleanedBy, cleaned, loaded>>

NextT == Clean \/ CleanAgain

SpecT == InitT /\ [][NextT]_vars

(***************************************************************************)
(* SpecW: the transform task of a run over every raw table within the      *)
(* bounds.  Run 1 is over: it found the raw file RawA and left its cleaned  *)
(* artifact, or found no raw file and left none.  The producer has then     *)
(* written any raw table; run 2 has archived and extracted it at second 1   *)
(* and its transform_products is due, with its one retry.                   *)
(***************************************************************************)
Order == <<"archive_raw_file", "extract_products", "transform_products", "load_products">>

\* The first n stages of the chain.
StagesDone(r, n) == [t \in Tasks |-> \E i \in 1..n : Order[i] = t]

InitW ==
    /\ rawFile \in RawTables
    /\ cleanedFile \in {NoFile, Stored(TransformFile(RawA))}
    /\ recleanedFile = Absent
    /\ fsWritable = TRUE
    /\ archiveDir = TRUE
    /\ now = TicksPerSecond
    /\ archive = [n \in SnapshotNames |->
                     IF n = SnapshotName(0) /\ cleanedFile.exists THEN Stored(RawA)
                     ELSE IF n = SnapshotName(TicksPerSecond) THEN Stored(rawFile)
                     ELSE NoFile]
    /\ runState = [r \in Runs |-> IF r = 1 THEN "success" ELSE "running"]
    /\ ts = [r \in Runs |-> [t \in Tasks |->
                 IF StagesDone(r, IF r = 1 THEN 4 ELSE 2)[t] THEN "success" ELSE "none"]]
    /\ tries = [r \in Runs |-> [t \in Tasks |->
                 IF StagesDone(r, IF r = 1 THEN 4 ELSE 2)[t] THEN 1 ELSE 0]]
    /\ pc = [r \in Runs |-> [t \in Tasks |-> "idle"]]
    /\ outcome = [r \in Runs |-> [t \in Tasks |->
                 IF r = 1 THEN (IF cleanedFile.exists THEN "ok" ELSE "missing")
                 ELSE IF StagesDone(r, 2)[t] THEN "ok" ELSE "none"]]
    /\ df = [r \in Runs |-> EmptyFrame]
    /\ extracted = [r \in Runs |->
                 IF r = 1 THEN (IF cleanedFile.exists THEN Len(RawA.rows) ELSE 0)
                 ELSE Len(rawFile.rows)]
    /\ stamp = [r \in Runs |->
                 IF r = 1 THEN (IF cleanedFile.exists THEN 0 ELSE -1) ELSE TicksPerSecond]
    /\ path = [r \in Runs |-> IF stamp[r] < 0 THEN "" ELSE SnapshotName(stamp[r])]
    /\ src = [r \in Runs |-> Absent]
    /\ cleanedBy = IF cleanedFile.exists THEN 1 ELSE 0
    /\ cleaned = [r \in Runs |->
                 IF r = 1 /\ cleanedFile.exists THEN Len(TransformFile(RawA).rows) ELSE -1]
    /\ loaded = cleaned

NextW ==
    \/ TransformStart(2)
    \/ TransformRead(2)
    \/ TransformOpen(2)
    \/ TransformWrite(2)

SpecW == InitW /\ [][NextW]_vars

(***************************************************************************)
(* Properties.                                                             *)
(***************************************************************************)
\* Task t of run r has been started at least once.
Started(r, t) == tries[r][t] > 0

\* The step at hand starts an attempt of task t of run r.
Starts(r, t) == tries'[r][t] = tries[r][t] + 1

Raised(r, t) == ts[r][t] \in {"up_for_retry", "failed"}

\* C1: within a run the stages execute in the order archive, extract,
\* transform, load: a stage that has started has its preceding stage
\* completed, and at most one stage of a run is executing.
C1_StagesInOrder ==
    \A r \in Runs :
        /\ \A i \in 2..Len(Order) :
               Started(r, Order[i]) => ts[r][Order[i - 1]] = "success"
        /\ Cardinality({t \in Tasks : ts[r][t] = "running"}) <= 1

C1_Witness ==
    \E r \in Runs :
        /\ ts[r]["transform_products"] = "running"
        /\ ts[r]["extract_products"] = "success"
        /\ ts[r]["load_products"] = "none"

Rows(file) == {file.rows[i] : i \in 1..Len(file.rows)}

\* C2: the cleaned artifact holds no two fully identical records.
C2_NoIdenticalRecords ==
    cleanedFile.exists =>
        \A i, k \in 1..Len(cleanedFile.rows) :
            i # k => cleanedFile.rows[i] # cleanedFile.rows[k]

\* Every present cell of column j of the file reads as a number.
NumericColumn(file, j) ==
    \A i \in 1..Len(file.rows) : IsNA(file.rows[i][j]) \/ IsNumTok(file.rows[i][j])

\* Cell c of the cleaned artifact is what the claim promises for raw cell x
\* of a numeric (num) or text column.
CleanedAs(c, x, num) ==
    IF num
    THEN IsNumTok(c) /\ NumVal(c) = (IF IsNA(x) THEN 0 ELSE NumVal(x))
    ELSE c = (IF IsNA(x) THEN "Unknown" ELSE x)

\* C3: every cell of the cleaned artifact is present, and every raw record
\* is found in it with 0 in its absent numeric cells and "Unknown" in its
\* absent text cells.
C3_AllCellsPresent ==
    cleanedFile.exists =>
        /\ \A i \in 1..Len(cleanedFile.rows) : \A j \in 1..Len(cleanedFile.header) :
               ~IsNA(cleanedFile.rows[i][j])
        /\ \A i \in 1..Len(rawFile.rows) : \E k \in 1..Len(cleanedFile.rows) :
               \A j \in 1..Len(rawFile.header) :
                   CleanedAs(cleanedFile.rows[k][j], rawFile.rows[i][j],
                             NumericColumn(rawFile, j))

C3_Witness ==
    /\ cleanedFile.exists
    /\ \E i \in 1..Len(rawFile.rows) : \E j \in 1..Len(rawFile.header) :
           IsNA(rawFile.rows[i][j]) /\ NumericColumn(rawFile, j)
    /\ \E i \in 1..Len(rawFile.rows) : \E j \in 1..Len(rawFile.header) :
           IsNA(rawFile.rows[i][j]) /\ ~NumericColumn(rawFile, j)

\* C4: cleaning the cleaned artifact again leaves its set of rows as it is.
C4_RowSetIdempotent ==
    recleanedFile.exists => Rows(recleanedFile) = Rows(cleanedFile)

C4_Witness ==
    /\ recleanedFile.exists
    /\ Len(cleanedFile.rows) < Len(rawFile.rows)
    /\ \E i \in 1..Len(rawFile.rows) : \E j \in 1..Len(rawFile.header) :
           IsNA(rawFile.rows[i][j])

\* C5: every column name n of the cleaned artifact equals
\* strip(lower(n)).replace(" ", "_"), and normalizing it again changes nothing.
C5_NamesNormalized ==
    cleanedFile.exists =>
        \A j \in 1..Len(cleanedFile.header) :
            LET n == cleanedFile.header[j]
            IN  /\ n = Replace(Strip(Lower(n)), " ", "_")
                /\ n = Replace(Lower(Strip(n)), " ", "_")

C5_Witness ==
    /\ cleanedFile.exists
    /\ \E j \in 1..Len(rawFile.header) :
           LET n == rawFile.header[j]
           IN  /\ IsSpace(n[1])
               /\ \E i \in 1..Len(n) : n[i] = "P"
    /\ \E j \in 1..Len(rawFile.header) :
           LET n == rawFile.header[j]
           IN  \E i \in 2..(Len(n) - 1) : IsSpace(n[i])

\* C6: an attempt of extract_products that finds no raw file does not
\* raise: it returns, and what it returns to the runner is the empty frame;
\* an attempt of transform_products that finds no raw file returns normally
\* and leaves the cleaned artifact as it is, not created and not changed.
C6_MissingRawDegrades ==
    [][\A r \in Runs :
          /\ (~rawFile.exists /\ Starts(r, "extract_products")) =>
                 /\ pc'[r]["extract_products"] = "push"
                 /\ outcome'[r]["extract_products"] = "missing"
                 /\ ~Raised(r, "extract_products")'
                 /\ extracted'[r] = 0
          /\ (~rawFile.exists /\ Starts(r, "transform_products")) =>
                 /\ ts'[r]["transform_products"] = "success"
                 /\ cleanedFile' = cleanedFile]_vars

C6_Witness ==
    \E r \in Runs :
        /\ outcome[r]["extract_products"] = "missing"
        /\ outcome[r]["transform_products"] = "missing"
        /\ ~rawFile.exists
        /\ cleanedFile.exists

\* C7: in a run whose transform found no raw file, the load of the same run
\* finds no cleaned artifact.
C7_LoaderSeesAbsence ==
    \A r \in Runs :
        (outcome[r]["transform_products"] = "missing" /\ Started(r, "load_products"))
            => outcome[r]["load_products"] = "missing"

\* The input file of stage t is there.
InputExists(t) == IF t = "load_products" THEN cleanedFile.exists ELSE rawFile.exists

\* The attempt of task t of run r that is under way found its input
\* missing and has returned.
ReturnedMissing(r, t) == ts[r][t] = "running" /\ outcome[r][t] = "missing"

\* C8: an attempt that finds its input file missing returns normally, and
\* the runner records it as a success: when the attempt ends the task
\* instance has succeeded, it is not put up for retry, and the next stage
\* of the run can start.
C8_MissingInputIsSuccess ==
    [][\A r \in Runs : \A i \in 1..Len(Order) :
          /\ (~InputExists(Order[i]) /\ Starts(r, Order[i])) =>
                 /\ outcome'[r][Order[i]] = "missing"
                 /\ ts'[r][Order[i]] \in {"running", "success"}
          /\ (/\ \/ (~InputExists(Order[i]) /\ Starts(r, Order[i]))
                 \/ ReturnedMissing(r, Order[i])
              /\ ts'[r][Order[i]] # "running") =>
                 /\ ts'[r][Order[i]] = "success"
                 /\ i < Len(Order) => CanStart(r, Order[i + 1])']_vars

\* The archive of run r is inside its shutil.copy.
Copying(r) ==
    pc[r]["archive_raw_file"] \in {"opensrc", "opendst", "write", "stat", "chmod"}

\* C9: with the raw file there, a call of the copy of archive_raw_file that
\* the filesystem refuses, the open of the snapshot, the write or the
\* setting of its mode, and a write that puts down less than the text of
\* the raw file, end the attempt raised with the error of the copy: the
\* task instance is put up for retry or failed, never succeeded.  The copy
\* ends in success only at its last call, with nothing refused.
C9_CopyFailurePropagates ==
    [][\A r \in Runs :
          /\ (/\ Copying(r)
              /\ pc'[r]["archive_raw_file"] = "idle"
              /\ ~fsWritable
              /\ rawFile.exists) =>
                 /\ ts'[r]["archive_raw_file"] \in {"up_for_retry", "failed"}
                 /\ outcome'[r]["archive_raw_file"] = "OSError"
          /\ (/\ pc[r]["archive_raw_file"] = "write"
              /\ pc'[r]["archive_raw_file"] # "write"
              /\ archive'[path[r]] # WriteOver(archive[path[r]], Text(src[r]))) =>
                 /\ ts'[r]["archive_raw_file"] \in {"up_for_retry", "failed"}
                 /\ outcome'[r]["archive_raw_file"] = "OSError"
          /\ (Copying(r) /\ ts'[r]["archive_raw_file"] = "success") =>
                 /\ fsWritable
                 /\ pc[r]["archive_raw_file"] = "chmod"
                 /\ outcome'[r]["archive_raw_file"] = "ok"]_vars

\* A copy failed partway: the task instance is raised and a snapshot holds
\* a part of the raw file.
C9_Witness ==
    \E r \in Runs :
        /\ outcome[r]["archive_raw_file"] = "OSError"
        /\ Raised(r, "archive_raw_file")
        /\ rawFile.exists
        /\ \E n \in DOMAIN archive : \E part \in Prefixes(Text(rawFile)) :
               Len(part) > 0 /\ archive[n] = [exists |-> TRUE, bytes |-> part]

\* C10: a stage is attempted at most twice per run; it is put up for retry
\* only after its first attempt raised; once both attempts raised the stage
\* is failed, no later stage of the run is ever started and the run does not
\* succeed; a stage that succeeds on its retry lets the next stage start.
C10_RetryBudget ==
    \A r \in Runs : \A i \in 1..Len(Order) :
        LET t == Order[i]
        IN  /\ tries[r][t] <= 2
            /\ ts[r][t] = "up_for_retry" => tries[r][t] = 1
            /\ ts[r][t] = "failed" =>
                   /\ tries[r][t] = 2
                   /\ runState[r] # "success"
                   /\ \A k \in (i + 1)..Len(Order) :
                          /\ ~Started(r, Order[k])
                          /\ ts[r][Order[k]] \in {"none", "upstream_failed"}
                          /\ ~CanStart(r, Order[k])
            /\ (ts[r][t] = "success" /\ tries[r][t] = 2 /\ i < Len(Order)) =>
                   /\ ts[r][Order[i + 1]] # "upstream_failed"
                   /\ (ts[r][Order[i + 1]] = "none" /\ runState[r] = "running")
                          => CanStart(r, Order[i + 1])
            /\ runState[r] = "failed" => \E u \in Tasks : ts[r][u] = "failed"

\* A run whose archive succeeded on its retry, a second later than the
\* attempt that left a part of the raw file behind, went on to the next
\* stages, and failed when both attempts of its transform had raised.
C10_Witness ==
    \E r \in Runs :
        /\ runState[r] = "failed"
        /\ ts[r]["archive_raw_file"] = "success"
        /\ tries[r]["archive_raw_file"] = 2
        /\ path[r] \in DOMAIN archive
        /\ \E f \in RawFiles : \E n \in DOMAIN archive :
               /\ archive[path[r]] = Stored(f)
               /\ n # path[r]
               /\ Len(archive[n].bytes) > 0
               /\ archive[n].bytes \in Prefixes(Text(f))
        /\ ts[r]["transform_products"] = "failed"
        /\ outcome[r]["transform_products"] = "OSError"
        /\ ts[r]["load_products"] = "upstream_failed"

\* The archive of run r copied the raw file and logged its archive_path.
Archived(r) == ts[r]["archive_raw_file"] = "success" /\ stamp[r] >= 0

\* The second a reading of the clock falls in.
Second(t) == t \div TicksPerSecond

\* The files of the archive directory that are at the archive_path of one
\* of two archive operations.
SnapshotsOf(r, q) == {n \in DOMAIN archive : archive[n].exists /\ n \in {path[r], path[q]}}

\* C11: two successful archive operations whose timestamps, the readings of
\* the clock they captured, fall in different seconds leave two distinct
\* snapshot files in the archive; two whose timestamps fall in the same
\* second target the same file name and leave one snapshot file.
C11_SnapshotPerSecond ==
    \A r, q \in Runs :
        (r # q /\ Archived(r) /\ Archived(q)) =>
            IF Second(stamp[r]) # Second(stamp[q])
            THEN Cardinality(SnapshotsOf(r, q)) = 2
            ELSE path[r] = path[q] /\ Cardinality(SnapshotsOf(r, q)) = 1

\* Two archives read the clock at two instants of one second, the later
\* one on its retry, and the archive holds one file.
C11_Witness ==
    \E r, q \in Runs :
        /\ r # q
        /\ Archived(r)
        /\ Archived(q)
        /\ stamp[r] < stamp[q]
        /\ Second(stamp[r]) = Second(stamp[q])
        /\ Cardinality({n \in DOMAIN archive : archive[n].exists}) = 1
        /\ tries[q]["archive_raw_file"] = 2

\* C12: a snapshot is created once and is immutable: no step changes the
\* content of a snapshot file that exists, or deletes it.
C12_SnapshotImmutable ==
    [][\A n \in DOMAIN archive : archive[n].exists => archive'[n] = archive[n]]_vars

CleanedTexts == {Text(TransformFile(f)) : f \in RawFiles}

\* A whole cleaned text, alone or with the end of a longer one behind it.
OnTop == {new \o SubSeq(old, Len(new) + 1, Len(old)) :
              new \in CleanedTexts, old \in CleanedTexts \cup {<<>>}}

Terminal(r) == runState[r] \in {"success", "failed"}

\* C14: no run reaches a terminal state without its Loader stage having
\* been executed.
C14_LoaderAlwaysExecuted ==
    \A r \in Runs : Terminal(r) => Started(r, "load_products")

\* C14, amended: a run reaches a terminal state only after its Loader has
\* completed or failed, or has been marked upstream_failed, unexecuted,
\* because an earlier stage of the run failed; a run that ends in success
\* has executed its Loader.
C14_LoaderExecutedOrSkipped ==
    \A r \in Runs :
        /\ Terminal(r) =>
               \/ /\ Started(r, "load_products")
                  /\ ts[r]["load_products"] \in {"success", "failed"}
               \/ /\ ~Started(r, "load_products")
                  /\ ts[r]["load_products"] = "upstream_failed"
                  /\ \E i \in 1..3 : ts[r][Order[i]] = "failed"
        /\ runState[r] = "success" => Started(r, "load_products")

\* A run ended failed at its archive with its load never executed.
C14_Witness ==
    \E r \in Runs :
        /\ runState[r] = "failed"
        /\ ts[r]["archive_raw_file"] = "failed"
        /\ outcome[r]["archive_raw_file"] = "OSError"
        /\ ~Started(r, "load_products")
        /\ ts[r]["load_products"] = "upstream_failed"

\* The raw records that are no copy of an earlier raw record.
Firsts(file) ==
    {i \in 1..Len(file.rows) : \A k \in 1..(i - 1) : file.rows[k] # file.rows[i]}

\* The cleaned artifact out is what the claim promises for the raw file raw:
\* one record per first occurrence of a raw record, in the raw order, each
\* in filled form, under the normalized names of the raw columns.
CleanedExactly(raw, out) ==
    /\ out.exists
    /\ Len(out.header) = Len(raw.header)
    /\ \A j \in 1..Len(out.header) :
           out.header[j] = Replace(Lower(Strip(ReadCsv(raw).columns[j])), " ", "_")
    /\ Len(out.rows) = Cardinality(Firsts(raw))
    /\ Len(out.rows) <= Len(raw.rows)
    /\ \A i \in Firsts(raw) :
           LET n == Cardinality({k \in Firsts(raw) : k <= i})
           IN  \A j \in 1..Len(raw.header) :
                   CleanedAs(out.rows[n][j], raw.rows[i][j], NumericColumn(raw, j))

\* C15: a transform that read the raw file and completes its write leaves,
\* whatever the cleaned artifact held before, exactly the raw records with
\* later copies removed, then absent numeric cells filled with 0, then absent
\* text cells filled with "Unknown", under normalized column names: every raw
\* record is there in filled form, none is invented, and the cleaned rows are
\* no more than the raw rows.
C15_ExactCleaning ==
    [][\A r \in Runs :
           (pc[r]["transform_products"] = "write"
                /\ ts'[r]["transform_products"] = "success")
               => /\ cleanedFile' = Stored(ToCsv(df[r]))
                  /\ CleanedExactly(rawFile, ToCsv(df[r]))]_vars

C15_Witness ==
    /\ outcome[2]["transform_products"] = "ok"
    /\ cleanedBy = 2
    /\ outcome[1]["transform_products"] = "ok"
    /\ cleanedFile # Stored(TransformFile(RawA))
    /\ cleanedFile = Stored(TransformFile(rawFile))
    /\ Len(rawFile.rows) = 2
    /\ Len(TransformFile(rawFile).rows) = 1
    /\ \E j \in 1..Len(rawFile.header) : IsNA(rawFile.rows[1][j])

\* The step at hand is a step of task t of run r.
TaskStep(r, t) ==
    \/ ts'[r][t] # ts[r][t]
    \/ pc'[r][t] # pc[r][t]
    \/ tries'[r][t] # tries[r][t]

\* C16: no step of a stage changes or removes the raw file; a step of
\* extract_products or load_products changes no file, a step of
\* archive_raw_file changes nothing outside the archive directory, and a step
\* of transform_products changes nothing but the cleaned artifact.  The raw
\* file changes only in a step of the producer.
C16_RawFileUntouched ==
    [][/\ \A r \in Runs : \A t \in Tasks :
              TaskStep(r, t) =>
                  /\ rawFile' = rawFile
                  /\ t \in {"extract_products", "load_products"} =>
                         UNCHANGED <<cleanedFile, archiveDir, archive>>
                  /\ t = "archive_raw_file" => cleanedFile' = cleanedFile
                  /\ t = "transform_products" => UNCHANGED <<archiveDir, archive>>
       /\ rawFile' # rawFile => UNCHANGED <<ts, pc, tries, runState>>]_vars

C16_Witness ==
    \E r \in Runs :
        /\ runState[r] = "success"
        /\ \A t \in Tasks : outcome[r][t] = "ok"
        /\ rawFile.exists
        /\ archive[path[r]] = Stored(rawFile)
        /\ cleanedFile = Stored(TransformFile(rawFile))
        /\ loaded[r] = cleaned[r]
        /\ loaded[r] = Len(TransformFile(rawFile).rows)

\* C17: with the raw file there and no write refused, archive_raw_file never
\* raises, whatever another run's archive_raw_file does meanwhile: no attempt
\* of it ends in the error of os.makedirs on a directory that exists.
C17_ArchiveRaceIsHarmless ==
    \A r \in Runs : outcome[r]["archive_raw_file"] # "FileExistsError"

\* C18: when a run whose archive stored a snapshot completes the write of
\* its transform, the frame it cleaned is the cleaning of the content held
\* in that run's snapshot.
C18_CleanedWhatWasArchived ==
    [][\A r \in Runs :
           (Archived(r)
                /\ pc[r]["transform_products"] = "write"
                /\ ts'[r]["transform_products"] = "success")
               => \E f \in RawFiles :
                      /\ archive[SnapshotName(stamp[r])] = Stored(f)
                      /\ df[r] = CleanFrame(ReadCsv(f))]_vars

\* C19: under the fair runner every run that has been created reaches a
\* terminal state, success or failed.
C19_RunsTerminate ==
    \A r \in Runs : (runState[r] = "running") ~> Terminal(r)

\* A run has ended failed: its archive succeeded at the second attempt and
\* both attempts of its transform raised.
C19_Witness ==
    \E r \in Runs :
        /\ runState[r] = "failed"
        /\ ts[r]["archive_raw_file"] = "success"
        /\ tries[r]["archive_raw_file"] = 2
        /\ ts[r]["transform_products"] = "failed"
        /\ tries[r]["transform_products"] = 2

=============================================================================
